---- MODULE Spec2Model ----
(***************************************************************************)
(* Model of the YouTube video summarizer (src/app.py): the caption         *)
(* normalizer clean_autogen_transcript, the partitioner chunk_text, the    *)
(* map-reduce orchestration of summarize_with_groq and                     *)
(* summarize_with_groq_enhanced, and the request handler process_video     *)
(* with extract_video_id and get_video_transcript.                         *)
(*                                                                         *)
(* A Python str is a sequence of one-character strings.  A call of         *)
(* client.chat.completions.create is a record appended to `calls` when it  *)
(* is issued and completed when the response (or the exception) arrives.   *)
(***************************************************************************)
EXTENDS Integers, Sequences, FiniteSets, TLC

VARIABLES
    fn,               \* the function under execution
    pc,               \* position inside fn
    api_key,          \* module-level api_key is set (truthy)
    text,             \* argument text
    summary_type,     \* argument summary_type
    chunk_size,       \* argument chunk_size / max_chars
    max_tokens,       \* argument max_tokens
    chunked,          \* chunk_text has been called by the running function
    chunks,           \* local chunks
    i,                \* loop index of enumerate(chunks), 0-based
    chunk_summaries,  \* local chunk_summaries
    combined_summary, \* local combined_summary
    calls,            \* capability calls issued so far, in order
    result,           \* returned value (meaningful when pc = "returned")
    error,            \* raised exception (meaningful when pc = "raised")
    url,              \* process_video: argument url
    vpc,              \* process_video: position inside the try block
    requests,         \* clicks of the process button in this session
    fetches,          \* calls of get_video_transcript by the running request
    download,         \* what yt-dlp did for the running request
    clean_text,       \* get_video_transcript: local clean_text
    word_count,       \* process_video: local word_count
    total_videos,     \* st.session_state.total_videos
    total_words_processed, \* st.session_state.total_words_processed
    avg_compression,  \* st.session_state.avg_compression, <<words out, words in>>
    shown             \* what the page shows for the running request

sessionVars == <<url, vpc, requests, fetches, download, clean_text,
                 word_count, total_videos, total_words_processed,
                 avg_compression, shown>>

vars == <<fn, pc, api_key, text, summary_type, chunk_size, max_tokens, chunked,
          chunks, i, chunk_summaries, combined_summary, calls, result, error,
          sessionVars>>

\* the session state of a run in which process_video plays no part
NoSession ==
    /\ url = <<>>
    /\ vpc = "none"
    /\ requests = 0
    /\ fetches = 0
    /\ download = [kind |-> "none", file |-> <<>>]
    /\ clean_text = <<>>
    /\ word_count = 0
    /\ total_videos = 0
    /\ total_words_processed = 0
    /\ avg_compression = <<0, 1>>
    /\ shown = "nothing"

-----------------------------------------------------------------------------
(* Bounds of the explored inputs *)

MaxWords == 2      \* words per transcript in the orchestration runs
MaxOut == 1        \* longest completion content returned by the capability
MaxLen == 5        \* longest text handed to chunk_text on its own
MaxChars == 4      \* largest max_chars handed to chunk_text on its own
MaxFrags == 3      \* caption fragments per raw caption text
MaxVideos == 2     \* presses of the process button per session

(* Program constants *)

OversizedThreshold == 3000
DefaultChunkSize == 2500
ChunkMaxTokens == 300
DefaultMaxTokens == 500
IdLength == 11
MinTranscriptLength == 50

-----------------------------------------------------------------------------
(* Strings *)

Whitespace == {" ", "\n", "\t"}

IsSpace(c) == c \in Whitespace

Rep(n, c) == IF n <= 0 THEN <<>> ELSE <<>> \o [k \in 1..n |-> c]

SetMin(S) == CHOOSE m \in S : \A n \in S : m <= n

\* first positions of the maximal whitespace-free runs of s
WordStarts(s) ==
    {k \in 1..Len(s) : ~IsSpace(s[k]) /\ (k = 1 \/ IsSpace(s[k - 1]))}

\* last positions of the maximal whitespace-free runs of s
WordEnds(s) ==
    {k \in 1..Len(s) : ~IsSpace(s[k]) /\ (k = Len(s) \/ IsSpace(s[k + 1]))}

RECURSIVE SplitRuns(_, _, _)
SplitRuns(s, starts, ends) ==
    IF starts = {} THEN <<>>
    ELSE LET a == SetMin(starts)
             b == SetMin(ends)
         IN  <<SubSeq(s, a, b)>> \o SplitRuns(s, starts \ {a}, ends \ {b})

\* str.split(): the whitespace-separated words of s, in order
split(s) == SplitRuns(s, WordStarts(s), WordEnds(s))

RECURSIVE join(_, _)
\* sep.join(parts)
join(sep, parts) ==
    IF parts = <<>> THEN <<>>
    ELSE IF Len(parts) = 1 THEN parts[1]
    ELSE parts[1] \o sep \o join(sep, Tail(parts))

-----------------------------------------------------------------------------
(* chunk_text, src/app.py 100-122 *)

\* mutant: the separator is not counted
word_length_bare(word) == Len(word)

\* len(word) + 1  # +1 for space
word_length(word) == Len(word) + 1

\* mutant: the chunk is closed even when it holds no word
ClosesChunkAlways(current_length, word, max_chars, current_chunk) ==
    current_length + word_length(word) > max_chars

\* the test that closes the current chunk before word
ClosesChunk(current_length, word, max_chars, current_chunk) ==
    current_length + word_length(word) > max_chars /\ current_chunk # <<>>

\* mutant: the words still held in current_chunk are dropped
FlushLastDropped(done, current_chunk) == done

\* the trailing `if current_chunk: chunks.append(" ".join(current_chunk))`
FlushLast(done, current_chunk) ==
    IF current_chunk # <<>> THEN Append(done, join(<<" ">>, current_chunk))
    ELSE done

RECURSIVE ChunkLoop(_, _, _, _, _)
\* the for loop over words, from the state (done, current_chunk, current_length)
ChunkLoop(words, done, current_chunk, current_length, max_chars) ==
    IF words = <<>> THEN FlushLast(done, current_chunk)
    ELSE LET word == Head(words) IN
         IF ClosesChunk(current_length, word, max_chars, current_chunk)
         THEN ChunkLoop(Tail(words), Append(done, join(<<" ">>, current_chunk)),
                        <<word>>, word_length(word), max_chars)
         ELSE ChunkLoop(Tail(words), done, Append(current_chunk, word),
                        current_length + word_length(word), max_chars)

chunk_text(t, max_chars) == ChunkLoop(split(t), <<>>, <<>>, 0, max_chars)

-----------------------------------------------------------------------------
(* chunk_text applied on its own to every short text *)

ChunkAlphabet == {"a", "b", " ", "\n"}

RECURSIVE StringsUpTo(_, _)
StringsUpTo(n, alphabet) ==
    IF n = 0 THEN {<<>>}
    ELSE LET shorter == StringsUpTo(n - 1, alphabet)
         IN  shorter \cup {Append(s, c) : s \in shorter, c \in alphabet}

NoCalls == <<>>
NoError == [msg |-> "none", index |-> 0]

InitChunk ==
    /\ fn = "chunk_text"
    /\ pc = "call"
    /\ api_key = TRUE
    /\ text \in StringsUpTo(MaxLen, ChunkAlphabet)
    /\ summary_type = "general"
    /\ chunk_size \in -1..MaxChars
    /\ max_tokens = DefaultMaxTokens
    /\ chunked = FALSE
    /\ chunks = <<>>
    /\ i = 0
    /\ chunk_summaries = <<>>
    /\ combined_summary = <<>>
    /\ calls = NoCalls
    /\ result = <<>>
    /\ error = NoError
    /\ NoSession

ChunkTextCall ==
    /\ fn = "chunk_text"
    /\ pc = "call"
    /\ chunks' = chunk_text(text, chunk_size)
    /\ chunked' = TRUE
    /\ pc' = "returned"
    /\ UNCHANGED <<fn, api_key, text, summary_type, chunk_size, max_tokens, i,
                   chunk_summaries, combined_summary, calls, result, error>>
    /\ UNCHANGED sessionVars

NextChunk == ChunkTextCall

SpecChunk == InitChunk /\ [][NextChunk]_vars

-----------------------------------------------------------------------------
(* clean_autogen_transcript, src/app.py 18-34 (and its copy src/test.py 6-22) *)

IsDigit(c) == c \in {"0", "1", "2", "3", "4", "5", "6", "7", "8", "9"}

\* s has the characters of pat at positions k .. k + Len(pat) - 1
MatchesAt(s, k, pat) ==
    /\ k + Len(pat) - 1 <= Len(s)
    /\ \A j \in 1..Len(pat) : s[k + j - 1] = pat[j]

\* length of the match of </?c> that starts at k, 0 when there is none
TagAt(s, k) ==
    IF MatchesAt(s, k, <<"<", "c", ">">>) THEN 3
    ELSE IF MatchesAt(s, k, <<"<", "/", "c", ">">>) THEN 4
    ELSE 0

\* length of the match of <\d{2}:\d{2}:\d{2}\.\d{3}> that starts at k, or 0
TimestampAt(s, k) ==
    IF /\ k + 13 <= Len(s)
       /\ s[k] = "<"
       /\ IsDigit(s[k + 1]) /\ IsDigit(s[k + 2])
       /\ s[k + 3] = ":"
       /\ IsDigit(s[k + 4]) /\ IsDigit(s[k + 5])
       /\ s[k + 6] = ":"
       /\ IsDigit(s[k + 7]) /\ IsDigit(s[k + 8])
       /\ s[k + 9] = "."
       /\ IsDigit(s[k + 10]) /\ IsDigit(s[k + 11]) /\ IsDigit(s[k + 12])
       /\ s[k + 13] = ">"
    THEN 14
    ELSE 0

\* a sequence without its deleted characters, which are marked ""
Kept(marked) == SelectSeq(marked, LAMBDA c : c # "")

\* re.sub(r"</?c>", "", s): a match starts with the only "<" it holds, so no
\* two matches overlap and every position where the pattern matches is
\* replaced
SubTags(s) ==
    Kept([j \in 1..Len(s) |->
            IF \E k \in (j - 3)..j : k >= 1 /\ k + TagAt(s, k) > j
            THEN "" ELSE s[j]])

\* re.sub(r"<\d{2}:\d{2}:\d{2}\.\d{3}>", "", s)
SubTimestamps(s) ==
    Kept([j \in 1..Len(s) |->
            IF \E k \in (j - 13)..j : k >= 1 /\ k + TimestampAt(s, k) > j
            THEN "" ELSE s[j]])

\* re.sub(r"\s+", " ", s): one blank for every maximal whitespace run
SubSpaces(s) ==
    Kept([j \in 1..Len(s) |->
            IF ~IsSpace(s[j]) THEN s[j]
            ELSE IF j = 1 \/ ~IsSpace(s[j - 1]) THEN " " ELSE ""])

\* str.strip()
strip(s) ==
    LET kept == {k \in 1..Len(s) : ~IsSpace(s[k])}
    IN  IF kept = {} THEN <<>>
        ELSE SubSeq(s, SetMin(kept),
                    CHOOSE m \in kept : \A n \in (m + 1)..Len(s) : IsSpace(s[n]))

clean_autogen_transcript(t) ==
    strip(SubSpaces(SubTimestamps(SubTags(t))))

(* clean_autogen_transcript applied on its own to raw caption texts *)

\* pieces of auto-generated captions, whole and cut
Fragments ==
    {<<"<">>, <<"c", ">">>, <<"<", "c", ">">>, <<"<", "/", "c", ">">>,
     <<"/", "c", ">">>, <<" ">>, <<"\n">>, <<"a">>,
     <<"<", "0", "0", ":", "0", "0", ":", "0">>,
     <<"1", ".", "0", "0", "0", ">">>,
     <<"<", "0", "0", ":", "0", "0", ":", "0", "1", ".", "0", "0", "0", ">">>}

RECURSIVE Concat(_)
Concat(parts) == IF parts = <<>> THEN <<>> ELSE Head(parts) \o Concat(Tail(parts))

RawCaptions ==
    {Concat(parts) : parts \in UNION {[1..n -> Fragments] : n \in 0..MaxFrags}}

InitClean ==
    /\ fn = "clean_autogen_transcript"
    /\ pc = "call"
    /\ api_key = TRUE
    /\ text \in RawCaptions
    /\ summary_type = "general"
    /\ chunk_size = DefaultChunkSize
    /\ max_tokens = DefaultMaxTokens
    /\ chunked = FALSE
    /\ chunks = <<>>
    /\ i = 0
    /\ chunk_summaries = <<>>
    /\ combined_summary = <<>>
    /\ calls = NoCalls
    /\ result = <<>>
    /\ error = NoError
    /\ NoSession

CleanCall ==
    /\ fn = "clean_autogen_transcript"
    /\ pc = "call"
    /\ result' = clean_autogen_transcript(text)
    /\ pc' = "returned"
    /\ UNCHANGED <<fn, api_key, text, summary_type, chunk_size, max_tokens,
                   chunked, chunks, i, chunk_summaries, combined_summary, calls,
                   error>>
    /\ UNCHANGED sessionVars

NextClean == CleanCall

SpecClean == InitClean /\ [][NextClean]_vars

-----------------------------------------------------------------------------
(* summarize_with_groq (src/app.py 124-202) and                            *)
(* summarize_with_groq_enhanced (src/app.py 750-818)                       *)

Summarizers == {"summarize_with_groq", "summarize_with_groq_enhanced"}

Styles == {"general", "detailed", "bullet_points", "key_takeaways"}

\* a prompt f"{prefix}{body}" is kept as the pair of its two parts
ChunkPromptPrefix ==
    "Please provide a concise summary of this part of a video transcript:\n\n"

chunk_prompt(chunk) == [prefix |-> ChunkPromptPrefix, body |-> chunk]

FinalPrefix ==
    [s \in Styles |->
        CASE s = "general" ->
               "Please create a cohesive summary from these section summaries of a video:\n\n"
          [] s = "detailed" ->
               "Please create a detailed, well-structured summary from these section summaries:\n\n"
          [] s = "bullet_points" ->
               "Please organize these section summaries into clear bullet points:\n\n"
          [] s = "key_takeaways" ->
               "Please extract the main insights and key takeaways from these summaries:\n\n"]

final_prompts(style, combined) == [prefix |-> FinalPrefix[style], body |-> combined]

DirectPrefix ==
    [s \in Styles |->
        CASE s = "general" ->
               "Please provide a clear and concise summary of the following video transcript:\n\n"
          [] s = "detailed" ->
               "Please provide a detailed summary with key points and main topics from the following video transcript:\n\n"
          [] s = "bullet_points" ->
               "Please summarize the following video transcript in bullet points, highlighting the main topics:\n\n"
          [] s = "key_takeaways" ->
               "Please extract the key takeaways and main insights from the following video transcript:\n\n"]

prompts(style, t) == [prefix |-> DirectPrefix[style], body |-> t]

\* client.chat.completions.create(model=..., messages=[{user, prompt}], ...)
create(prompt, tokens) ==
    [model |-> "llama-3.1-8b-instant", prompt |-> prompt, max_tokens |-> tokens,
     temperature |-> "0.1", status |-> "pending", content |-> <<>>]

Completed(call, content) == [call EXCEPT !.status = "ok", !.content = content]

Failed(call) == [call EXCEPT !.status = "error"]

\* mutant: the threshold itself counts as oversized
NeedsChunkingInclusive(t) == Len(t) >= OversizedThreshold

\* if len(text) > 3000
NeedsChunking(t) == Len(t) > OversizedThreshold

\* max_chars of the chunk_text call: 2500, or the chunk_size argument
PartitionSize(f, size) ==
    IF f = "summarize_with_groq" THEN DefaultChunkSize ELSE size

IntMin(a, b) == IF a <= b THEN a ELSE b

\* max_tokens of a chunk call: 300, or min(300, max_tokens // 2)
MapMaxTokens(f, tokens) ==
    IF f = "summarize_with_groq" THEN ChunkMaxTokens
    ELSE IntMin(ChunkMaxTokens, tokens \div 2)

\* mutant: the enhanced function halves the budget of every call
FinalMaxTokensHalved(f, tokens) ==
    IF f = "summarize_with_groq" THEN DefaultMaxTokens ELSE tokens \div 2

\* max_tokens of the final and of the direct call: 500, or the argument
FinalMaxTokens(f, tokens) ==
    IF f = "summarize_with_groq" THEN DefaultMaxTokens ELSE tokens

\* mutant: the loop stops one chunk early
HasNextChunkShort(k, parts) == k + 1 < Len(parts)

\* enumerate(chunks) has chunks left after i of them
HasNextChunk(k, parts) == k < Len(parts)

\* mutant: the chunks are visited from the last one
ChunkAtReversed(parts, k) == parts[Len(parts) - k]

\* the chunk that enumerate(chunks) yields at index k
ChunkAt(parts, k) == parts[k + 1]

\* mutant: a single newline separates the summaries
combine_single(summaries) == join(<<"\n">>, summaries)

\* "\n\n".join(chunk_summaries)
combine(summaries) == join(<<"\n", "\n">>, summaries)

\* mutant: the 0-based loop index is reported
ChunkErrorZeroBased(k) == [msg |-> "Error summarizing chunk", index |-> k]

\* f"Error summarizing chunk {i+1}: {str(e)}"
ChunkError(k) == [msg |-> "Error summarizing chunk", index |-> k + 1]

SummaryError == [msg |-> "Error generating summary", index |-> 0]

KeyError == [msg |-> "Groq API key not found", index |-> 0]

(* The whole run as a function of its arguments and of the capability's    *)
(* answers: answers[n] is what the n-th call issued gets, a call past the   *)
(* end of answers raises.                                                   *)

Answered(answers, n) == n <= Len(answers) /\ answers[n].ok

Finished(log, outcome, value, exception) ==
    [calls |-> log, pc |-> outcome, result |-> value, error |-> exception]

\* lines 153-178: the join, the final call and its two outcomes
RunReduce(f, style, tokens, answers, log, summaries) ==
    LET combined == combine(summaries)
        call == create(final_prompts(style, combined), FinalMaxTokens(f, tokens))
        n == Len(log) + 1
    IN  IF Answered(answers, n)
        THEN Finished(Append(log, Completed(call, answers[n].content)),
                      "returned", answers[n].content, NoError)
        ELSE Finished(Append(log, Failed(call)), "returned", combined, NoError)

RECURSIVE RunMap(_, _, _, _, _, _, _, _)
\* lines 134-151: the loop over the chunks from index k on
RunMap(f, parts, style, tokens, answers, k, log, summaries) ==
    IF HasNextChunk(k, parts)
    THEN LET call == create(chunk_prompt(ChunkAt(parts, k)), MapMaxTokens(f, tokens))
             n == Len(log) + 1
         IN  IF Answered(answers, n)
             THEN RunMap(f, parts, style, tokens, answers, k + 1,
                         Append(log, Completed(call, answers[n].content)),
                         Append(summaries, answers[n].content))
             ELSE Finished(Append(log, Failed(call)), "raised", <<>>, ChunkError(k))
    ELSE RunReduce(f, style, tokens, answers, log, summaries)

\* lines 180-202: the direct call and its two outcomes
RunDirect(f, t, style, tokens, answers) ==
    LET call == create(prompts(style, t), FinalMaxTokens(f, tokens))
    IN  IF Answered(answers, 1)
        THEN Finished(<<Completed(call, answers[1].content)>>, "returned",
                      answers[1].content, NoError)
        ELSE Finished(<<Failed(call)>>, "raised", <<>>, SummaryError)

\* the function body, lines 126-202 and 752-818, given the chunks that
\* chunk_text yields at line 131 / 757
summarize_from(f, key, t, parts, style, tokens, answers) ==
    IF ~key THEN Finished(NoCalls, "raised", <<>>, KeyError)
    ELSE IF NeedsChunking(t)
    THEN RunMap(f, parts, style, tokens, answers, 0, NoCalls, <<>>)
    ELSE RunDirect(f, t, style, tokens, answers)

summarize_run(f, key, t, style, size, tokens, answers) ==
    summarize_from(f, key, t, chunk_text(t, PartitionSize(f, size)), style,
                   tokens, answers)

(* inputs *)

WordLens == {DefaultChunkSize \div 2, OversizedThreshold + 1}

Pads == {0, OversizedThreshold, OversizedThreshold + 1}

\* leading blanks followed by words of the given lengths
Transcript(pad, lens) ==
    Rep(pad, " ") \o join(<<" ">>, [k \in DOMAIN lens |-> Rep(lens[k], "a")])

Transcripts ==
    {Transcript(pad, lens) :
        pad \in Pads, lens \in UNION {[1..n -> WordLens] : n \in 0..MaxWords}}

\* (chunk_size, max_tokens) of the calls of summarize_with_groq_enhanced
EnhancedArgs ==
    {<<DefaultChunkSize, DefaultMaxTokens>>,
     <<OversizedThreshold + 1, 2 * ChunkMaxTokens>>}

\* response.choices[0].message.content of a successful call
Outputs == {Rep(n, "s") : n \in 0..MaxOut}

Init ==
    /\ fn \in Summarizers
    /\ pc = "entry"
    /\ api_key \in BOOLEAN
    /\ text \in Transcripts
    /\ summary_type \in Styles
    /\ \E args \in IF fn = "summarize_with_groq"
                    THEN {<<DefaultChunkSize, DefaultMaxTokens>>}
                    ELSE EnhancedArgs :
          /\ chunk_size = args[1]
          /\ max_tokens = args[2]
    /\ chunked = FALSE
    /\ chunks = <<>>
    /\ i = 0
    /\ chunk_summaries = <<>>
    /\ combined_summary = <<>>
    /\ calls = NoCalls
    /\ result = <<>>
    /\ error = NoError
    /\ NoSession

\* mutant: the api_key check is missing
EnterKeyUnchecked ==
    /\ fn \in Summarizers
    /\ pc = "entry"
    /\ IF NeedsChunking(text)
       THEN /\ pc' = "map_loop"
            /\ chunks' = chunk_text(text, PartitionSize(fn, chunk_size))
            /\ chunked' = TRUE
       ELSE /\ pc' = "direct"
            /\ UNCHANGED <<chunked, chunks>>
    /\ UNCHANGED <<fn, api_key, text, summary_type, chunk_size, max_tokens, i,
                   chunk_summaries, combined_summary, calls, result, error>>
    /\ UNCHANGED sessionVars

\* lines 126-131: the api_key check, the length test and the partition
Enter ==
    /\ fn \in Summarizers
    /\ pc = "entry"
    /\ IF ~api_key
       THEN /\ pc' = "raised"
            /\ error' = KeyError
            /\ UNCHANGED <<chunked, chunks>>
       ELSE IF NeedsChunking(text)
       THEN /\ pc' = "map_loop"
            /\ chunks' = chunk_text(text, PartitionSize(fn, chunk_size))
            /\ chunked' = TRUE
            /\ UNCHANGED error
       ELSE /\ pc' = "direct"
            /\ UNCHANGED <<chunked, chunks, error>>
    /\ UNCHANGED <<fn, api_key, text, summary_type, chunk_size, max_tokens, i,
                   chunk_summaries, combined_summary, calls, result>>
    /\ UNCHANGED sessionVars

\* mutant: the next chunk's prompt is sent without waiting for the answer
MapIssueEager ==
    /\ pc = "map_loop"
    /\ HasNextChunk(i, chunks)
    /\ calls' = Append(calls, create(chunk_prompt(ChunkAt(chunks, i)),
                                     MapMaxTokens(fn, max_tokens)))
    /\ i' = i + 1
    /\ chunk_summaries' = Append(chunk_summaries, <<>>)
    /\ UNCHANGED <<fn, pc, api_key, text, summary_type, chunk_size, max_tokens,
                   chunked, chunks, combined_summary, result, error>>
    /\ UNCHANGED sessionVars

\* lines 134-146: the next chunk's prompt is sent
MapIssue ==
    /\ pc = "map_loop"
    /\ HasNextChunk(i, chunks)
    /\ calls' = Append(calls, create(chunk_prompt(ChunkAt(chunks, i)),
                                     MapMaxTokens(fn, max_tokens)))
    /\ pc' = "map_wait"
    /\ UNCHANGED <<fn, api_key, text, summary_type, chunk_size, max_tokens,
                   chunked, chunks, i, chunk_summaries, combined_summary,
                   result, error>>
    /\ UNCHANGED sessionVars

\* line 148: the chunk call answers
MapReturn(content) ==
    /\ pc = "map_wait"
    /\ calls' = [calls EXCEPT ![Len(calls)] = Completed(@, content)]
    /\ chunk_summaries' = Append(chunk_summaries, content)
    /\ i' = i + 1
    /\ pc' = "map_loop"
    /\ UNCHANGED <<fn, api_key, text, summary_type, chunk_size, max_tokens,
                   chunked, chunks, combined_summary, result, error>>
    /\ UNCHANGED sessionVars

\* lines 150-151: the chunk call raises
MapFail ==
    /\ pc = "map_wait"
    /\ calls' = [calls EXCEPT ![Len(calls)] = Failed(@)]
    /\ error' = ChunkError(i)
    /\ pc' = "raised"
    /\ UNCHANGED <<fn, api_key, text, summary_type, chunk_size, max_tokens,
                   chunked, chunks, i, chunk_summaries, combined_summary,
                   result>>
    /\ UNCHANGED sessionVars

\* mutant: the bullet_points style returns the joined summaries as they are
ReduceIssueSkipsBullets ==
    /\ pc = "map_loop"
    /\ ~HasNextChunk(i, chunks)
    /\ combined_summary' = combine(chunk_summaries)
    /\ IF summary_type = "bullet_points"
       THEN /\ result' = combine(chunk_summaries)
            /\ pc' = "returned"
            /\ UNCHANGED calls
       ELSE /\ calls' = Append(calls,
                               create(final_prompts(summary_type,
                                                    combine(chunk_summaries)),
                                      FinalMaxTokens(fn, max_tokens)))
            /\ pc' = "reduce_wait"
            /\ UNCHANGED result
    /\ UNCHANGED <<fn, api_key, text, summary_type, chunk_size, max_tokens,
                   chunked, chunks, i, chunk_summaries, error>>
    /\ UNCHANGED sessionVars

\* lines 153-172: the loop is over, the summaries are joined, the final
\* prompt is sent
ReduceIssue ==
    /\ pc = "map_loop"
    /\ ~HasNextChunk(i, chunks)
    /\ combined_summary' = combine(chunk_summaries)
    /\ calls' = Append(calls,
                       create(final_prompts(summary_type, combine(chunk_summaries)),
                              FinalMaxTokens(fn, max_tokens)))
    /\ pc' = "reduce_wait"
    /\ UNCHANGED <<fn, api_key, text, summary_type, chunk_size, max_tokens,
                   chunked, chunks, i, chunk_summaries, result, error>>
    /\ UNCHANGED sessionVars

\* line 174: the final call answers
ReduceReturn(content) ==
    /\ pc = "reduce_wait"
    /\ calls' = [calls EXCEPT ![Len(calls)] = Completed(@, content)]
    /\ result' = content
    /\ pc' = "returned"
    /\ UNCHANGED <<fn, api_key, text, summary_type, chunk_size, max_tokens,
                   chunked, chunks, i, chunk_summaries, combined_summary, error>>
    /\ UNCHANGED sessionVars

\* lines 176-178: the final call raises, the joined summaries are returned
ReduceFail ==
    /\ pc = "reduce_wait"
    /\ calls' = [calls EXCEPT ![Len(calls)] = Failed(@)]
    /\ result' = combined_summary
    /\ pc' = "returned"
    /\ UNCHANGED <<fn, api_key, text, summary_type, chunk_size, max_tokens,
                   chunked, chunks, i, chunk_summaries, combined_summary, error>>
    /\ UNCHANGED sessionVars

\* lines 182-197: the prompt over the whole text is sent
DirectIssue ==
    /\ pc = "direct"
    /\ calls' = Append(calls, create(prompts(summary_type, text),
                                     FinalMaxTokens(fn, max_tokens)))
    /\ pc' = "direct_wait"
    /\ UNCHANGED <<fn, api_key, text, summary_type, chunk_size, max_tokens,
                   chunked, chunks, i, chunk_summaries, combined_summary,
                   result, error>>
    /\ UNCHANGED sessionVars

\* line 199: the direct call answers
DirectReturn(content) ==
    /\ pc = "direct_wait"
    /\ calls' = [calls EXCEPT ![Len(calls)] = Completed(@, content)]
    /\ result' = content
    /\ pc' = "returned"
    /\ UNCHANGED <<fn, api_key, text, summary_type, chunk_size, max_tokens,
                   chunked, chunks, i, chunk_summaries, combined_summary, error>>
    /\ UNCHANGED sessionVars

\* mutant: the failure is swallowed and an empty summary returned
DirectFailSwallowed ==
    /\ pc = "direct_wait"
    /\ calls' = [calls EXCEPT ![Len(calls)] = Failed(@)]
    /\ result' = <<>>
    /\ pc' = "returned"
    /\ UNCHANGED <<fn, api_key, text, summary_type, chunk_size, max_tokens,
                   chunked, chunks, i, chunk_summaries, combined_summary, error>>
    /\ UNCHANGED sessionVars

\* lines 201-202: the direct call raises
DirectFail ==
    /\ pc = "direct_wait"
    /\ calls' = [calls EXCEPT ![Len(calls)] = Failed(@)]
    /\ error' = SummaryError
    /\ pc' = "raised"
    /\ UNCHANGED <<fn, api_key, text, summary_type, chunk_size, max_tokens,
                   chunked, chunks, i, chunk_summaries, combined_summary,
                   result>>
    /\ UNCHANGED sessionVars

Next ==
    \/ Enter
    \/ MapIssue
    \/ \E content \in Outputs : MapReturn(content)
    \/ MapFail
    \/ ReduceIssue
    \/ \E content \in Outputs : ReduceReturn(content)
    \/ ReduceFail
    \/ DirectIssue
    \/ \E content \in Outputs : DirectReturn(content)
    \/ DirectFail

Spec == Init /\ [][Next]_vars

-----------------------------------------------------------------------------
(* process_video, src/app.py 595-747, with extract_video_id (36-42) and    *)
(* get_video_transcript (44-98), as run by the process button (520-525)    *)

Letters ==
    {"a", "b", "c", "d", "e", "f", "g", "h", "i", "j", "k", "l", "m",
     "n", "o", "p", "q", "r", "s", "t", "u", "v", "w", "x", "y", "z",
     "A", "B", "C", "D", "E", "F", "G", "H", "I", "J", "K", "L", "M",
     "N", "O", "P", "Q", "R", "S", "T", "U", "V", "W", "X", "Y", "Z"}

\* the class [0-9A-Za-z_-]
IsIdChar(c) == IsDigit(c) \/ c \in Letters \/ c \in {"_", "-"}

\* where group 1 starts when (?:v=|\/)([0-9A-Za-z_-]{11}) matches at k, or 0
IdAt(u, k) ==
    LET start == IF MatchesAt(u, k, <<"v", "=">>) THEN k + 2
                 ELSE IF MatchesAt(u, k, <<"/">>) THEN k + 1
                 ELSE 0
    IN  IF /\ start > 0
           /\ start + IdLength - 1 <= Len(u)
           /\ \A j \in start..(start + IdLength - 1) : IsIdChar(u[j])
        THEN start
        ELSE 0

\* re.search takes the leftmost match; no match raises ValueError
extract_video_id(u) ==
    LET found == {k \in 1..Len(u) : IdAt(u, k) > 0}
    IN  IF found = {} THEN [ok |-> FALSE, id |-> <<>>]
        ELSE LET start == IdAt(u, SetMin(found))
             IN  [ok |-> TRUE, id |-> SubSeq(u, start, start + IdLength - 1)]

InvalidUrl == [msg |-> "Invalid YouTube URL", index |-> 0]

TranscriptError(cause) ==
    [msg |-> "Could not retrieve transcript", cause |-> cause]

TooShortError == TranscriptError("Extracted transcript is too short or empty")

\* line.startswith("WEBVTT"), "-->" in line, re.match(r"^\d+$", line)
SkippedLine(line) ==
    \/ line = <<>>
    \/ MatchesAt(line, 1, <<"W", "E", "B", "V", "T", "T">>)
    \/ \E k \in 1..Len(line) : MatchesAt(line, k, <<"-", "-", ">">>)
    \/ \A k \in 1..Len(line) : IsDigit(line[k])

\* lines 75-87: the stripped lines of the subtitle file that are kept
VttLines(file) ==
    SelectSeq([k \in 1..Len(file) |-> strip(file[k])],
              LAMBDA line : ~SkippedLine(line))

\* mutant: only an empty transcript is refused
TranscriptTooShortEmptyOnly(t) == t = <<>>

\* line 92: not clean_text or len(clean_text.strip()) < 50
TranscriptTooShort(t) ==
    t = <<>> \/ Len(strip(t)) < MinTranscriptLength

\* line 620: not transcript_text or len(transcript_text.strip()) < 50
InsufficientText(transcript_text) ==
    transcript_text = <<>> \/ Len(strip(transcript_text)) < MinTranscriptLength

\* line 89
RawText(file) == join(<<" ">>, VttLines(file))

\* what yt-dlp did decides the outcome; every exception leaves wrapped (98).
\* The result holds the local clean_text, which is the value returned when
\* nothing was raised.
get_video_transcript(d) ==
    IF d.kind = "failed"
    THEN [ok |-> FALSE, clean_text |-> <<>>,
          error |-> TranscriptError("download failed")]
    ELSE IF d.kind = "no_subtitles"
    THEN [ok |-> FALSE, clean_text |-> <<>>,
          error |-> TranscriptError("No subtitle file was downloaded")]
    ELSE LET cleaned == clean_autogen_transcript(RawText(d.file))
         IN  IF TranscriptTooShort(cleaned)
             THEN [ok |-> FALSE, clean_text |-> cleaned, error |-> TooShortError]
             ELSE [ok |-> TRUE, clean_text |-> cleaned, error |-> NoError]

(* inputs *)

Urls ==
    {<<>>} \cup
    {prefix \o Rep(n, "a") :
        prefix \in {<<"v", "=">>, <<"/">>, <<"?">>},
        n \in {IdLength - 1, IdLength}}

\* a cue of a subtitle file: its number, its timing and one line of text
Cue(words) ==
    << <<"1">>,
       <<"0", "0", ":", "0", "1", " ", "-", "-", ">", " ", "0", "0", ":", "0", "2">>,
       <<" ", "<", "c", ">">> \o Rep(words, "a") \o <<"<", "/", "c", ">">>,
       <<>> >>

CaptionFile(lens) ==
    << <<"W", "E", "B", "V", "T", "T">>, <<>> >>
        \o Concat([k \in DOMAIN lens |-> Cue(lens[k])])

CaptionFiles ==
    {CaptionFile(lens) :
        lens \in {<<>>,
                  <<MinTranscriptLength - 1>>,
                  <<MinTranscriptLength>>,
                  <<DefaultChunkSize \div 2, DefaultChunkSize \div 2>>,
                  <<OversizedThreshold + 1, DefaultChunkSize \div 2>>}}

\* the styles picked in the sidebar by the explored sessions
RequestStyles == {"general", "bullet_points"}

NoDownload == [kind |-> "none", file |-> <<>>]

Downloads ==
    {[kind |-> "failed", file |-> <<>>], [kind |-> "no_subtitles", file |-> <<>>]}
        \cup {[kind |-> "subtitles", file |-> f] : f \in CaptionFiles}

\* a session: the counters are at 0 (531-536) and no request is running
InitVideo ==
    /\ fn = "process_video"
    /\ pc = "idle"
    /\ api_key \in BOOLEAN
    /\ text = <<>>
    /\ summary_type = "general"
    /\ chunk_size = DefaultChunkSize
    /\ max_tokens = DefaultMaxTokens
    /\ chunked = FALSE
    /\ chunks = <<>>
    /\ i = 0
    /\ chunk_summaries = <<>>
    /\ combined_summary = <<>>
    /\ calls = NoCalls
    /\ result = <<>>
    /\ error = NoError
    /\ url = <<>>
    /\ vpc = "idle"
    /\ requests = 0
    /\ fetches = 0
    /\ download = NoDownload
    /\ clean_text = <<>>
    /\ word_count = 0
    /\ total_videos = 0
    /\ total_words_processed = 0
    /\ avg_compression = <<0, 1>>
    /\ shown = "nothing"

\* lines 520-525 and 601-604: the button is pressed with url u and style s
ProcessVideo(u, s) ==
    /\ vpc = "idle"
    /\ requests < MaxVideos
    /\ requests' = requests + 1
    /\ url' = u
    /\ summary_type' = s
    /\ chunk_size' = DefaultChunkSize
    /\ max_tokens' = DefaultMaxTokens
    /\ fn' = "process_video"
    /\ pc' = "idle"
    /\ text' = <<>>
    /\ chunked' = FALSE
    /\ chunks' = <<>>
    /\ i' = 0
    /\ chunk_summaries' = <<>>
    /\ combined_summary' = <<>>
    /\ calls' = NoCalls
    /\ result' = <<>>
    /\ error' = NoError
    /\ fetches' = 0
    /\ download' = NoDownload
    /\ clean_text' = <<>>
    /\ word_count' = 0
    /\ IF u = <<>>
       THEN /\ shown' = "Please enter a YouTube video URL"
            /\ vpc' = "idle"
       ELSE /\ shown' = "nothing"
            /\ vpc' = "extract"
    /\ UNCHANGED <<api_key, total_videos, total_words_processed,
                   avg_compression>>

\* mutant: the identifier is not looked for
ExtractIdUnchecked ==
    /\ vpc = "extract"
    /\ vpc' = "fetch"
    /\ UNCHANGED <<fn, pc, api_key, text, summary_type, chunk_size, max_tokens,
                   chunked, chunks, i, chunk_summaries, combined_summary, calls,
                   result, error, url, requests, fetches, download, clean_text,
                   word_count,
                   total_videos, total_words_processed, avg_compression, shown>>

\* lines 606 and 740-741
ExtractId ==
    /\ vpc = "extract"
    /\ IF extract_video_id(url).ok
       THEN /\ vpc' = "fetch"
            /\ UNCHANGED <<error, shown>>
       ELSE /\ error' = InvalidUrl
            /\ shown' = "Invalid URL"
            /\ vpc' = "idle"
    /\ UNCHANGED <<fn, pc, api_key, text, summary_type, chunk_size, max_tokens,
                   chunked, chunks, i, chunk_summaries, combined_summary, calls,
                   result, url, requests, fetches, download, clean_text,
                   word_count,
                   total_videos, total_words_processed, avg_compression>>

\* lines 618-624 and 742-744: the transcript is fetched and measured
FetchTranscript(d) ==
    /\ vpc = "fetch"
    /\ fetches' = fetches + 1
    /\ download' = d
    /\ LET fetched == get_video_transcript(d) IN
       /\ clean_text' = fetched.clean_text
       /\ IF ~fetched.ok
          THEN /\ error' = fetched.error
               /\ shown' = "Error"
               /\ vpc' = "idle"
               /\ UNCHANGED <<fn, pc, text, word_count>>
          ELSE IF InsufficientText(fetched.clean_text)
          THEN /\ shown' = "Could not extract sufficient text"
               /\ vpc' = "idle"
               /\ UNCHANGED <<fn, pc, text, word_count, error>>
          ELSE /\ text' = fetched.clean_text
               /\ word_count' = Len(split(fetched.clean_text))
               /\ fn' = "summarize_with_groq_enhanced"
               /\ pc' = "entry"
               /\ vpc' = "summarize"
               /\ UNCHANGED <<error, shown>>
    /\ UNCHANGED <<api_key, summary_type, chunk_size, max_tokens, chunked,
                   chunks, i, chunk_summaries, combined_summary, calls, result,
                   url, requests, total_videos, total_words_processed,
                   avg_compression>>

\* lines 642-672: the summary came back, the counters move and it is shown
ShowSummary ==
    /\ vpc = "summarize"
    /\ pc = "returned"
    /\ total_videos' = total_videos + 1
    /\ total_words_processed' = total_words_processed + word_count
    /\ avg_compression' = <<Len(split(result)), word_count>>
    /\ shown' = "summary"
    /\ vpc' = "idle"
    /\ UNCHANGED <<fn, pc, api_key, text, summary_type, chunk_size, max_tokens,
                   chunked, chunks, i, chunk_summaries, combined_summary, calls,
                   result, error, url, requests, fetches, download, clean_text,
                   word_count>>

\* lines 742-744: the summarizer raised
ShowError ==
    /\ vpc = "summarize"
    /\ pc = "raised"
    /\ shown' = "Error"
    /\ vpc' = "idle"
    /\ UNCHANGED <<fn, pc, api_key, text, summary_type, chunk_size, max_tokens,
                   chunked, chunks, i, chunk_summaries, combined_summary, calls,
                   result, error, url, requests, fetches, download, clean_text,
                   word_count,
                   total_videos, total_words_processed, avg_compression>>

NextVideo ==
    \/ \E u \in Urls, s \in RequestStyles : ProcessVideo(u, s)
    \/ ExtractId
    \/ \E d \in Downloads : FetchTranscript(d)
    \/ Enter
    \/ MapIssue
    \/ \E content \in Outputs : MapReturn(content)
    \/ MapFail
    \/ ReduceIssue
    \/ \E content \in Outputs : ReduceReturn(content)
    \/ ReduceFail
    \/ DirectIssue
    \/ \E content \in Outputs : DirectReturn(content)
    \/ DirectFail
    \/ ShowSummary
    \/ ShowError

SpecVideo == InitVideo /\ [][NextVideo]_vars

-----------------------------------------------------------------------------
(* Vocabulary of the properties *)

IsMapCall(c) == c.prompt.prefix = ChunkPromptPrefix

IsReduceCall(c) == c.prompt.prefix \in {FinalPrefix[s] : s \in Styles}

IsDirectCall(c) == c.prompt.prefix \in {DirectPrefix[s] : s \in Styles}

AllCallsOk == \A k \in 1..Len(calls) : calls[k].status = "ok"

LastCall == calls[Len(calls)]

\* the final call failed: the run is on the degraded path
ReduceFailed ==
    Len(calls) > 0 /\ IsReduceCall(LastCall) /\ LastCall.status = "error"

\* the contents the chunk calls answered, in call order
MapOutputs ==
    LET maps == {k \in 1..Len(calls) : IsMapCall(calls[k]) /\ calls[k].status = "ok"}
    IN  [k \in 1..Cardinality(maps) |-> calls[k].content]

Terminated == pc \in {"returned", "raised"}

\* the run the state has reached, as summarize_run reports a run
ThisRun == Finished(calls, pc, result, error)

\* what the capability answered to the calls of a log
AnswersOf(log) ==
    IF log = <<>> THEN <<>>
    ELSE <<>> \o [k \in 1..Len(log) |->
                    [ok |-> log[k].status = "ok", content |-> log[k].content]]

\* what the caller of the function gets: a value or an exception
Observable(run) == [pc |-> run.pc, result |-> run.result, error |-> run.error]

CallKind(c) ==
    IF IsMapCall(c) THEN "map" ELSE IF IsReduceCall(c) THEN "reduce" ELSE "direct"

\* the path of a run: the kinds and outcomes of its calls in order, the
\* prompts of its chunk calls, and the kind of its outcome
Path(run) ==
    [kinds |-> [k \in 1..Len(run.calls) |-> CallKind(run.calls[k])],
     statuses |-> [k \in 1..Len(run.calls) |-> run.calls[k].status],
     map_prompts |-> [k \in {j \in 1..Len(run.calls) : IsMapCall(run.calls[j])} |->
                         run.calls[k].prompt],
     outcome |-> IF run.pc = "raised" THEN "error"
                 ELSE IF run.calls # <<>> /\ run.calls[Len(run.calls)].status = "error"
                 THEN "degraded return"
                 ELSE "return"]

-----------------------------------------------------------------------------
(* Properties of summarize_with_groq / summarize_with_groq_enhanced *)

\* C1: on a text longer than 3000 characters split into N segments, the calls
\* issued are, in order, N chunk-summary calls and then at most one final
\* call, nothing else; a run that returns with every call answered has issued
\* exactly N chunk calls followed by exactly one final call.
C1_MapCallsThenOneReduce ==
    (fn \in Summarizers /\ Len(text) > OversizedThreshold) =>
        /\ Len(calls) <= Len(chunks) + 1
        /\ \A k \in 1..Len(calls) :
              IF k <= Len(chunks) THEN IsMapCall(calls[k])
              ELSE IsReduceCall(calls[k])
        /\ (pc = "returned" /\ AllCallsOk) => Len(calls) = Len(chunks) + 1
        /\ (chunked /\ pc \in {"returned", "reduce_wait"}) =>
              Len(calls) = Len(chunks) + 1

C1_Witness ==
    /\ fn \in Summarizers
    /\ Len(text) > OversizedThreshold
    /\ pc = "returned"
    /\ AllCallsOk
    /\ Len(chunks) = 2
    /\ Len(calls) = 3

\* C2: when chunk call k fails (calls 1..k-1 answered), the run has raised
\* the error that names chunk k, call k is the last call ever issued (no chunk
\* call k+1..N, no final call) and nothing is returned.
C2_MapFailureRaisesIndex ==
    \A k \in 1..Len(calls) :
        (IsMapCall(calls[k]) /\ calls[k].status = "error") =>
            /\ pc = "raised"
            /\ error = [msg |-> "Error summarizing chunk", index |-> k]
            /\ Len(calls) = k
            /\ \A j \in 1..(k - 1) : IsMapCall(calls[j]) /\ calls[j].status = "ok"
            /\ result = <<>>

C2_Witness ==
    /\ pc = "raised"
    /\ Len(chunks) = 2
    /\ Len(calls) = 1
    /\ IsMapCall(calls[1])
    /\ calls[1].status = "error"
    /\ error.index = 1

\* C3: when every chunk call was answered and the final call fails, the run
\* returns (it does not raise) the chunk answers joined by "\n\n" in segment
\* order.
C3_DegradedReturnsJoinedPartials ==
    ReduceFailed =>
        /\ pc = "returned"
        /\ Len(MapOutputs) = Len(chunks)
        /\ result = join(<<"\n", "\n">>, MapOutputs)

C3_Witness ==
    /\ ReduceFailed
    /\ pc = "returned"
    /\ Len(chunks) = 2
    /\ MapOutputs[1] # MapOutputs[2]
    /\ result # <<>>

\* C4: a run that returns on the degraded path (final call failed after every
\* chunk call was answered) returns a non-empty string.
C4_DegradedResultNonEmpty ==
    (ReduceFailed /\ pc = "returned") => Len(result) > 0

\* C5: on a text of at most 3000 characters chunk_text is never called, the
\* only call ever issued is the one direct call carrying the style's prompt
\* over the whole text, and a run that returns returns that call's content
\* unchanged.
C5_ShortTextOneDirectCall ==
    (fn \in Summarizers /\ Len(text) <= OversizedThreshold) =>
        /\ ~chunked
        /\ chunks = <<>>
        /\ Len(calls) <= 1
        /\ \A k \in 1..Len(calls) :
              /\ IsDirectCall(calls[k])
              /\ calls[k].prompt.prefix = DirectPrefix[summary_type]
              /\ calls[k].prompt.body = text
        /\ pc = "returned" =>
              /\ Len(calls) = 1
              /\ calls[1].status = "ok"
              /\ result = calls[1].content

C5_Witness ==
    /\ fn \in Summarizers
    /\ Len(text) = OversizedThreshold
    /\ summary_type = "bullet_points"
    /\ pc = "returned"
    /\ Len(calls) = 1
    /\ result # <<>>

\* C6: when the direct call fails the run has raised the summary error,
\* nothing is returned and no second call is ever issued.
C6_DirectFailureRaises ==
    (Len(calls) > 0 /\ IsDirectCall(calls[1]) /\ calls[1].status = "error") =>
        /\ pc = "raised"
        /\ error.msg = "Error generating summary"
        /\ Len(calls) = 1
        /\ result = <<>>

C6_Witness ==
    /\ pc = "raised"
    /\ Len(calls) = 1
    /\ IsDirectCall(calls[1])
    /\ calls[1].status = "error"

\* C10: chunk call k carries segment k of the partition of the text (chunks,
\* which before the first call is what chunk_text yields on the text), partial
\* summary k is the content chunk call k answered, and the final prompt wraps
\* the partial summaries joined in segment order.
C10_SegmentOrderPreserved ==
    fn \in Summarizers =>
        /\ (chunked /\ calls = <<>>) =>
              chunks = chunk_text(text, PartitionSize(fn, chunk_size))
        /\ \A k \in 1..Len(calls) :
              IsMapCall(calls[k]) =>
                  k <= Len(chunks) /\ calls[k].prompt.body = chunks[k]
        /\ \A k \in 1..Len(chunk_summaries) :
              /\ IsMapCall(calls[k])
              /\ calls[k].status = "ok"
              /\ chunk_summaries[k] = calls[k].content
        /\ \A k \in 1..Len(calls) :
              IsReduceCall(calls[k]) =>
                  /\ Len(chunk_summaries) = Len(chunks)
                  /\ calls[k].prompt.body = join(<<"\n", "\n">>, chunk_summaries)

C10_Witness ==
    /\ fn \in Summarizers
    /\ pc = "returned"
    /\ Len(chunks) = 2
    /\ chunks[1] # chunks[2]
    /\ Len(chunk_summaries) = 2
    /\ chunk_summaries[1] # chunk_summaries[2]
    /\ IsReduceCall(LastCall)

\* C14: within one run at most one call is in flight, it is the last one
\* issued, and chunk call k+1 is issued only once chunk calls 1..k have
\* completed, the calls following the segments in increasing order.
C14_CallsNeverOverlap ==
    fn \in Summarizers =>
        /\ Cardinality({k \in 1..Len(calls) : calls[k].status = "pending"}) <= 1
        /\ \A k \in 1..(Len(calls) - 1) : calls[k].status # "pending"
        /\ \A k \in 1..Len(calls) :
              IsMapCall(calls[k]) =>
                  /\ \A j \in 1..(k - 1) : calls[j].status = "ok"
                  /\ calls[k].prompt.body = chunks[k]
        /\ (Len(calls) > 0 /\ LastCall.status = "pending") <=>
              pc \in {"map_wait", "reduce_wait", "direct_wait"}

C14_Witness ==
    /\ fn \in Summarizers
    /\ pc = "map_wait"
    /\ Len(chunks) = 2
    /\ Len(calls) = 2
    /\ calls[1].status = "ok"
    /\ calls[2].status = "pending"

\* C11: a run that returned on the degraded path is told apart, by what the
\* caller gets, from the run on the same arguments whose final call answered
\* the very text the degraded run returned.
C11_DegradedDistinguishable ==
    (fn \in Summarizers /\ pc = "returned" /\ ReduceFailed) =>
        LET given == AnswersOf(calls)
            twin == [given EXCEPT ![Len(calls)] = [ok |-> TRUE, content |-> result]]
        IN  Observable(summarize_run(fn, api_key, text, summary_type, chunk_size,
                                     max_tokens, twin))
                # Observable(ThisRun)

\* C15: a finished run takes the path that the run on the same text, with the
\* same answers of the capability, takes under each of the four styles: the
\* same kinds of calls in the same order with the same outcomes, the same
\* chunk prompts, the same kind of outcome.  (The partition of the text is
\* chunks for every style: chunk_text is not given the style.)
C15_StylesSamePath ==
    (fn \in Summarizers /\ Terminated) =>
        \A style \in Styles :
            Path(summarize_from(fn, api_key, text, chunks, style, max_tokens,
                                AnswersOf(calls)))
                = Path(ThisRun)

C15_Witness ==
    /\ fn \in Summarizers
    /\ summary_type = "key_takeaways"
    /\ pc = "returned"
    /\ ReduceFailed
    /\ Len(chunks) = 2

\* C19: with no API key set the run raises the key error without calling
\* chunk_text and without issuing any call, whatever the text and the style.
C19_NoKeyNoCall ==
    (fn \in Summarizers /\ ~api_key) =>
        /\ calls = <<>>
        /\ ~chunked
        /\ chunks = <<>>
        /\ pc \in {"entry", "raised"}
        /\ pc = "raised" => error.msg = "Groq API key not found"

C19_Witness ==
    /\ fn = "summarize_with_groq_enhanced"
    /\ ~api_key
    /\ Len(text) > OversizedThreshold
    /\ pc = "raised"
    /\ calls = <<>>

\* summarize_with_groq_enhanced was called with its defaults and has finished
EnhancedDefaultsDone ==
    /\ fn = "summarize_with_groq_enhanced"
    /\ chunk_size = DefaultChunkSize
    /\ max_tokens = DefaultMaxTokens
    /\ Terminated

\* C20 as claimed: summarize_with_groq_enhanced with its defaults does what
\* summarize_with_groq does on the same text and style with the same answers
\* of the capability: the same calls (prompt, max_tokens, temperature) in the
\* same order and the same outcome.
C20_EnhancedDefaultsEquivalent ==
    EnhancedDefaultsDone =>
        summarize_run("summarize_with_groq", api_key, text, summary_type,
                      DefaultChunkSize, DefaultMaxTokens, AnswersOf(calls))
            = ThisRun

\* C20 as amended: the two runs cut the text alike, issue the same calls in
\* the same order with the same prompt, model and temperature and end in the
\* same outcome; max_tokens agrees on the final and on the direct call, and
\* differs on every chunk call: 250 in summarize_with_groq_enhanced, 300 in
\* summarize_with_groq.
C20_EnhancedDefaultsSameButChunkTokens ==
    EnhancedDefaultsDone =>
        LET other == summarize_from("summarize_with_groq", api_key, text, chunks,
                                    summary_type, DefaultMaxTokens,
                                    AnswersOf(calls))
        IN  /\ PartitionSize("summarize_with_groq", DefaultChunkSize)
                  = PartitionSize(fn, chunk_size)
            /\ Len(other.calls) = Len(calls)
            /\ \A k \in 1..Len(calls) :
                  /\ other.calls[k].prompt = calls[k].prompt
                  /\ other.calls[k].model = calls[k].model
                  /\ other.calls[k].temperature = calls[k].temperature
                  /\ other.calls[k].status = calls[k].status
                  /\ other.calls[k].content = calls[k].content
                  /\ IF IsMapCall(calls[k])
                     THEN calls[k].max_tokens = 250 /\ other.calls[k].max_tokens = 300
                     ELSE calls[k].max_tokens = other.calls[k].max_tokens
            /\ Observable(other) = Observable(ThisRun)

C20_Witness ==
    /\ EnhancedDefaultsDone
    /\ pc = "returned"
    /\ AllCallsOk
    /\ Len(chunks) = 2
    /\ Len(calls) = 3
    /\ calls[1].max_tokens = 250
    /\ calls[3].max_tokens = 500

-----------------------------------------------------------------------------
(* Properties of chunk_text *)

\* C7: for max_chars > 0, the chunks joined by single spaces and split on
\* whitespace are exactly the whitespace-separated words of the text, in
\* order.
C7_ChunksCoverWords ==
    (fn = "chunk_text" /\ pc = "returned" /\ chunk_size > 0) =>
        split(join(<<" ">>, chunks)) = split(text)

C7_Witness ==
    /\ fn = "chunk_text"
    /\ pc = "returned"
    /\ chunk_size > 0
    /\ Len(chunks) = 2
    /\ Len(split(text)) = 3
    /\ \E k \in 1..Len(text) : text[k] = "\n"

\* C8: for max_chars > 0, every chunk is at most max_chars long, except a
\* chunk that is one single word longer than max_chars.
C8_ChunkLengthBound ==
    (fn = "chunk_text" /\ pc = "returned" /\ chunk_size > 0) =>
        \A k \in 1..Len(chunks) :
            \/ Len(chunks[k]) <= chunk_size
            \/ /\ Len(split(chunks[k])) = 1
               /\ split(chunks[k])[1] = chunks[k]
               /\ Len(chunks[k]) > chunk_size

C8_Witness ==
    /\ fn = "chunk_text"
    /\ pc = "returned"
    /\ chunk_size > 0
    /\ Len(chunks) = 2
    /\ Len(chunks[1]) > chunk_size
    /\ Len(chunks[2]) <= chunk_size

\* C16: a chunk is closed before a word only when the word does not fit: for
\* consecutive chunks s and t, len(s) + 1 + len(first word of t) > max_chars.
C16_ClosedOnlyWhenWordDoesNotFit ==
    (fn = "chunk_text" /\ pc = "returned") =>
        \A k \in 1..(Len(chunks) - 1) :
            Len(chunks[k]) + 1 + Len(split(chunks[k + 1])[1]) > chunk_size

\* C17: no chunk is empty, whatever the text and max_chars (a word longer
\* than max_chars and max_chars <= 0 included), and there is no chunk exactly
\* when the text has no word.
C17_NoEmptyChunk ==
    (fn = "chunk_text" /\ pc = "returned") =>
        /\ \A k \in 1..Len(chunks) : chunks[k] # <<>>
        /\ chunks = <<>> <=> split(text) = <<>>

C17_Witness ==
    /\ fn = "chunk_text"
    /\ pc = "returned"
    /\ chunk_size < 0
    /\ Len(chunks) = 2
    /\ Len(chunks[1]) > 1

-----------------------------------------------------------------------------
(* Properties of clean_autogen_transcript *)

\* C18: the normalizer's output holds no <c> or </c> tag and no timestamp
\* marker <HH:MM:SS.mmm>.
C18_OutputHasNoMarkup ==
    (fn = "clean_autogen_transcript" /\ pc = "returned") =>
        \A k \in 1..Len(result) :
            TagAt(result, k) = 0 /\ TimestampAt(result, k) = 0

\* C9: the normalizer is idempotent: normalizing its own output changes
\* nothing.
C9_NormalizerIdempotent ==
    (fn = "clean_autogen_transcript" /\ pc = "returned") =>
        clean_autogen_transcript(result) = result

-----------------------------------------------------------------------------
(* Transcript acquisition and the session *)

\* C12: whenever the cleaned caption text of the subtitles that a request
\* fetched is empty or shorter than 50 characters, get_video_transcript has
\* raised the too-short error instead of returning a transcript: the request
\* is over with the error shown, process_video holds no transcript, and no
\* capability call was issued for the video.
C12_ShortCaptionsNeverSummarized ==
    (/\ download.kind = "subtitles"
     /\ clean_text = <<>> \/ Len(clean_text) < MinTranscriptLength)
    => /\ vpc = "idle"
       /\ error = TooShortError
       /\ shown = "Error"
       /\ text = <<>>
       /\ word_count = 0
       /\ calls = NoCalls
       /\ pc = "idle"

\* subtitles whose raw text has at least 50 characters and whose cleaned
\* text has fewer were fetched, and the request ended in the error
C12_Witness ==
    /\ download.kind = "subtitles"
    /\ clean_text # <<>>
    /\ Len(clean_text) < MinTranscriptLength
    /\ Len(RawText(download.file)) >= MinTranscriptLength
    /\ fetches = 1
    /\ error = TooShortError
    /\ calls = NoCalls

\* C13: when no identifier can be extracted from the url of the running
\* request, the next step of process_video ends the request with the
\* invalid-url error: no transcript was or is fetched, no capability call
\* was or is issued, no further attempt is made, and total_videos and
\* total_words_processed keep their values.
C13_InvalidUrlEndsRequest ==
    [][(vpc = "extract" /\ ~extract_video_id(url).ok)
        => /\ fetches = 0 /\ calls = NoCalls
           /\ vpc' = "idle"
           /\ error' = InvalidUrl
           /\ shown' = "Invalid URL"
           /\ fetches' = 0
           /\ download' = NoDownload
    /\ clean_text' = <<>>
           /\ calls' = NoCalls
           /\ pc' = "idle"
           /\ requests' = requests
           /\ total_videos' = total_videos
           /\ total_words_processed' = total_words_processed]_vars

\* a second request, after a summarized video, ended on an invalid url that
\* holds "v=" and too few identifier characters
C13_Witness ==
    /\ vpc = "idle"
    /\ shown = "Invalid URL"
    /\ error = InvalidUrl
    /\ \E k \in 1..Len(url) : MatchesAt(url, k, <<"v", "=">>)
    /\ requests = 2
    /\ total_videos = 1
    /\ total_words_processed > 0
    /\ calls = NoCalls

=============================================================================
